---- MODULE Spec2Model ----
(***************************************************************************)
(* FieldDataProcessor (src/field_data_processor.py): a processor object    *)
(* holding one pandas DataFrame (self.df) and a fixed configuration, with  *)
(* the four public steps ingest_sql_data, rename_columns,                  *)
(* apply_corrections, weather_station_mapping and the orchestrating        *)
(* process().                                                              *)
(*                                                                         *)
(* A DataFrame is a record [present, columns, rows]: columns is the        *)
(* sequence of column labels, rows the sequence of rows, each row a        *)
(* sequence of cells aligned with columns.  A cell is a record             *)
(* [kind, num, str]; a string value is a sequence of characters so that    *)
(* str.strip() is computed and not assumed.                                *)
(***************************************************************************)
EXTENDS Integers, Sequences, FiniteSets, TLC

VARIABLES
    df,                 \* self.df
    engine,             \* self.engine (TRUE once create_db_engine returned)
    columns_to_rename,  \* self.columns_to_rename, first (key, value) pair
    values_to_rename,   \* self.values_to_rename
    pc,                 \* position of a running process() call, or "idle"
    err,                \* exception raised by the last step, or "none"
    lastOp,             \* the step executed last
    pre,                \* self.df when that step was entered
    pre2,               \* self.df when the step before it was entered, kept
                        \* while the last two steps are the same repeatable
                        \* step, both without error
    fetched,            \* table the collaborator returned to that step
    started,            \* steps started by the process() call that ran lastOp
    status              \* of that process() call: "running", "returned",
                        \* "raised"; "none" when lastOp was called directly

vars == <<df, engine, columns_to_rename, values_to_rename, pc, err, lastOp,
          pre, pre2, fetched, started, status>>

config == <<columns_to_rename, values_to_rename>>

-----------------------------------------------------------------------------
(* Bounds of the explored inputs *)

MaxRows == 2

-----------------------------------------------------------------------------
(* Cells and tables *)

IntCell(n) == [kind |-> "int", num |-> n, str |-> <<>>]
StrCell(s) == [kind |-> "str", num |-> 0, str |-> s]
NullCell == [kind |-> "null", num |-> 0, str |-> <<>>]

NoTable == [present |-> FALSE, columns |-> <<>>, rows |-> <<>>]
Table(cols, rs) == [present |-> TRUE, columns |-> cols, rows |-> rs]

Range(s) == {s[i] : i \in 1..Len(s)}

HasCol(t, name) == name \in Range(t.columns)

\* position of the (first) column carrying the label
ColIndex(t, name) ==
    CHOOSE i \in 1..Len(t.columns) :
        /\ t.columns[i] = name
        /\ \A j \in 1..(i - 1) : t.columns[j] # name

Column(t, name) == [r \in 1..Len(t.rows) |-> t.rows[r][ColIndex(t, name)]]

\* df[name] = values : the column is replaced cell by cell
SetColumn(t, name, values) ==
    [t EXCEPT !.rows =
        [r \in 1..Len(t.rows) |->
            [t.rows[r] EXCEPT ![ColIndex(t, name)] = values[r]]]]

IsNumeric(col) == \A r \in DOMAIN col : col[r].kind \in {"int", "null"}
IsText(col) == \A r \in DOMAIN col : col[r].kind \in {"str", "null"}

-----------------------------------------------------------------------------
(* pandas / Python primitives used by the steps *)

\* Series.abs() on one numeric value
AbsIdentity(n) == n
AbsNegate(n) == 0 - n
Abs(n) == IF n < 0 THEN 0 - n ELSE n

series_abs(col) ==
    [r \in DOMAIN col |->
        IF col[r].kind = "int" THEN IntCell(Abs(col[r].num)) ELSE col[r]]

\* characters that str.strip() removes
IsSpace(c) == c \in {" ", "\t", "\n"}

RECURSIVE lstrip(_)
lstrip(s) == IF s # <<>> /\ IsSpace(Head(s)) THEN lstrip(Tail(s)) ELSE s

RECURSIVE rstrip(_)
rstrip(s) ==
    IF s # <<>> /\ IsSpace(s[Len(s)])
    THEN rstrip(SubSeq(s, 1, Len(s) - 1))
    ELSE s

strip_left_only(s) == lstrip(s)
strip(s) == rstrip(lstrip(s))

\* Series.str.strip(): missing values stay missing
series_str_strip(col) ==
    [r \in DOMAIN col |->
        IF col[r].kind = "str" THEN StrCell(strip(col[r].str)) ELSE col[r]]

\* self.values_to_rename.get(crop, crop)
values_get(map, crop) == IF crop \in DOMAIN map THEN map[crop] ELSE crop

series_apply_get(col, map) ==
    [r \in DOMAIN col |->
        IF col[r].kind = "str" THEN StrCell(values_get(map, col[r].str))
        ELSE col[r]]

\* DataFrame.rename(columns = mapper): labels absent from the frame are ignored
rename(t, mapper) ==
    [t EXCEPT !.columns =
        [i \in 1..Len(t.columns) |->
            IF t.columns[i] \in DOMAIN mapper THEN mapper[t.columns[i]]
            ELSE t.columns[i]]]

\* the placeholder label: extended by "_" while it is a label of the frame
TempBase == "__temp_name_for_swap__"

RECURSIVE extend_temp_name(_, _)
extend_temp_name(cols, name) ==
    IF name \in Range(cols) THEN extend_temp_name(cols, name \o "_") ELSE name

temp_name_fixed(cols) == TempBase
temp_name(cols) == extend_temp_name(cols, TempBase)

\* the dict literal {column1: temp, column2: column1}; a repeated key keeps
\* the value written last
first_mapper(column1, column2, temp) ==
    [k \in {column1, column2} |-> IF k = column2 THEN column1 ELSE temp]

second_mapper(column2, temp) == [k \in {temp} |-> column2]

swap_one_way(t, column1, column2) ==
    rename(t, [k \in {column1} |-> column2])
swap(t, column1, column2) ==
    LET temp == temp_name(t.columns)
    IN  rename(rename(t, first_mapper(column1, column2, temp)),
               second_mapper(column2, temp))

\* wsd[["Field_ID", "Weather_station"]]
select(t, names) ==
    Table(names,
          [r \in 1..Len(t.rows) |->
              [i \in 1..Len(names) |-> t.rows[r][ColIndex(t, names[i])]]])

DropAt(row, k) == SubSeq(row, 1, k - 1) \o SubSeq(row, k + 1, Len(row))

\* left rows in order, each followed by the non-key cells of every right row
\* with the same key, or by missing values when there is none
RECURSIVE left_join_rows(_, _, _, _, _)
left_join_rows(lrows, lk, rrows, rk, width) ==
    IF lrows = <<>> THEN <<>>
    ELSE LET l == Head(lrows)
             Match(r) == r[rk] = l[lk]
             m == SelectSeq(rrows, Match)
             joined ==
                 IF m = <<>>
                 THEN << l \o [i \in 1..(width - 1) |-> NullCell] >>
                 ELSE [i \in 1..Len(m) |-> l \o DropAt(m[i], rk)]
         IN  joined \o left_join_rows(Tail(lrows), lk, rrows, rk, width)

RECURSIVE inner_join_rows(_, _, _, _, _)
inner_join_rows(lrows, lk, rrows, rk, width) ==
    IF lrows = <<>> THEN <<>>
    ELSE LET l == Head(lrows)
             Match(r) == r[rk] = l[lk]
             m == SelectSeq(rrows, Match)
         IN  [i \in 1..Len(m) |-> l \o DropAt(m[i], rk)]
                 \o inner_join_rows(Tail(lrows), lk, rrows, rk, width)

join_rows(lrows, lk, rrows, rk, width) ==
    left_join_rows(lrows, lk, rrows, rk, width)

\* labels of the merged frame: a non-key label present on both sides gets the
\* suffixes "_x" (left) and "_y" (right)
Overlap(left, right, key) ==
    (Range(left.columns) \cap Range(right.columns)) \ {key}

left_labels(left, right, key) ==
    [i \in 1..Len(left.columns) |->
        IF left.columns[i] \in Overlap(left, right, key)
        THEN left.columns[i] \o "_x" ELSE left.columns[i]]

right_labels(left, right, key) ==
    LET rc == DropAt(right.columns, ColIndex(right, key))
    IN  [i \in 1..Len(rc) |->
            IF rc[i] \in Overlap(left, right, key)
            THEN rc[i] \o "_y" ELSE rc[i]]

IsUnique(labels) ==
    \A i, j \in 1..Len(labels) : labels[i] = labels[j] => i = j

\* outcome of self.df.merge(right, on = key, how = 'left'):
\* the exception raised, or "none"
merge_error(left, right, key) ==
    IF ~HasCol(left, key) \/ ~HasCol(right, key) THEN "KeyError"
    ELSE IF IsNumeric(Column(left, key)) # IsNumeric(Column(right, key))
    THEN "ValueError"
    ELSE IF \/ IsUnique(left.columns)
               /\ ~IsUnique(left_labels(left, right, key))
            \/ IsUnique(right.columns)
               /\ ~IsUnique(right_labels(left, right, key))
    THEN "MergeError"
    ELSE "none"

merge(left, right, key) ==
    Table(left_labels(left, right, key) \o right_labels(left, right, key),
          join_rows(left.rows, ColIndex(left, key),
                    right.rows, ColIndex(right, key), Len(right.columns)))

-----------------------------------------------------------------------------
(* The environment: what the collaborators of data_ingestion can return *)

\* (Elevation, Crop_type) readings of consecutive survey rows
Readings ==
    << <<0 - 1, <<"m", " ">>>>, <<1, <<"M">>>>,
       <<0 - 2, <<" ", "M">>>>, <<0, <<"m">>>> >>

ReadingAt(k) == Readings[((k - 1) % Len(Readings)) + 1]

Layouts == {"plain", "swapped", "nocrop", "placeholder"}

LayoutColumns(layout) ==
    CASE layout = "plain" -> <<"Field_ID", "Elevation", "Crop_type">>
      [] layout = "swapped" -> <<"Field_ID", "Crop_type", "Elevation">>
      [] layout = "nocrop" -> <<"Field_ID", "Elevation">>
      [] layout = "placeholder" ->
            <<"Field_ID", TempBase, "Elevation", "Crop_type">>

LayoutRow(layout, id, reading) ==
    LET e == IntCell(reading[1])
        c == StrCell(reading[2])
    IN  CASE layout = "plain" -> <<IntCell(id), e, c>>
          [] layout = "swapped" -> <<IntCell(id), e, c>>
          [] layout = "nocrop" -> <<IntCell(id), e>>
          [] layout = "placeholder" -> <<IntCell(id), StrCell(<<"t">>), e, c>>

\* result sets of query_data(engine, sql_query): a block of MaxRows
\* consecutive survey rows, Field_ID 1..MaxRows
DbTables ==
    { Table(LayoutColumns(layout),
            [i \in 1..MaxRows |->
                LayoutRow(layout, i, ReadingAt(block * MaxRows + i))]) :
        layout \in Layouts, block \in {0, 1} }

Station(name) == StrCell(<<name>>)

\* tables read_from_web_CSV(weather_map_data) can return
WeatherTables ==
    { Table(<<"Field_ID", "Weather_station", "Message">>,
            << <<IntCell(1), Station("A"), Station("x")>> >>),
      Table(<<"Weather_station", "Field_ID">>,
            << <<Station("A"), IntCell(1)>>, <<Station("B"), IntCell(1)>> >>) }

RenamePairs ==
    { [source |-> "Elevation", target |-> "Crop_type"],
      [source |-> TempBase, target |-> "Crop_type"],
      [source |-> "Crop_type", target |-> "Soil"] }

ValueMaps ==
    { [k \in {<<"m">>} |-> <<"M">>],
      [k \in {<<"m">>, <<"M">>} |-> IF k = <<"m">> THEN <<"M">> ELSE <<"m">>],
      [k \in {<<"m">>} |-> <<" ", "M">>] }

-----------------------------------------------------------------------------
(* The steps.  Each is the whole method: it sets df, engine, err and the    *)
(* record of the call (lastOp, pre, fetched).                               *)

\* steps whose effect depends on self.df and the configuration only
Repeatable == {"rename_columns", "apply_corrections"}

Raise(op, e, table) ==
    /\ err' = e
    /\ df' = table
    /\ lastOp' = op
    /\ pre' = df
    /\ pre2' = IF op \in Repeatable /\ op = lastOp /\ e = "none" /\ err = "none"
               THEN pre ELSE NoTable

Return(op, table) == Raise(op, "none", table)

ingest_accumulate(t) ==
    IF df.present /\ df.columns = t.columns
    THEN Table(t.columns, df.rows \o t.rows)
    ELSE t
ingest_result(t) == t

ingest_sql_data ==
    \/ \* create_db_engine raises
       /\ Raise("ingest_sql_data", "DataSourceError", df)
       /\ fetched' = NoTable
       /\ UNCHANGED engine
    \/ \* query_data raises
       /\ engine' = TRUE
       /\ Raise("ingest_sql_data", "DataSourceError", df)
       /\ fetched' = NoTable
    \/ \E t \in DbTables :
       /\ engine' = TRUE
       /\ fetched' = t
       /\ Return("ingest_sql_data", ingest_result(t))

rename_columns ==
    /\ fetched' = NoTable
    /\ UNCHANGED engine
    /\ IF ~df.present
       THEN Raise("rename_columns", "AttributeError", df)
       ELSE Return("rename_columns",
                   swap(df, columns_to_rename.source, columns_to_rename.target))

\* self.df after line 133 of apply_corrections
after_abs(t, abs_column) ==
    SetColumn(t, abs_column, series_abs(Column(t, abs_column)))

\* self.df after lines 134-135
after_strip_and_map(t, column_name) ==
    SetColumn(t, column_name,
        series_apply_get(series_str_strip(Column(t, column_name)),
                         values_to_rename))

apply_corrections_to(column_name, abs_column) ==
    /\ fetched' = NoTable
    /\ UNCHANGED engine
    /\ IF ~df.present
       THEN Raise("apply_corrections", "TypeError", df)
       ELSE IF ~HasCol(df, abs_column)
       THEN Raise("apply_corrections", "KeyError", df)
       ELSE IF ~IsNumeric(Column(df, abs_column))
       THEN Raise("apply_corrections", "TypeError", df)
       ELSE IF ~HasCol(df, column_name)
       THEN Raise("apply_corrections", "KeyError", after_abs(df, abs_column))
       ELSE IF ~IsText(Column(df, column_name))
       THEN Raise("apply_corrections", "AttributeError",
                  after_abs(df, abs_column))
       ELSE Return("apply_corrections",
                   after_strip_and_map(after_abs(df, abs_column), column_name))

apply_corrections == apply_corrections_to("Crop_type", "Elevation")

weather_station_mapping ==
    /\ UNCHANGED engine
    /\ \/ \* read_from_web_CSV raises
          /\ fetched' = NoTable
          /\ Raise("weather_station_mapping", "EnrichmentSourceError", df)
       \/ \E wsd \in WeatherTables :
          /\ fetched' = wsd
          /\ LET right == select(wsd, <<"Field_ID", "Weather_station">>)
             IN  IF ~df.present
                 THEN Raise("weather_station_mapping", "AttributeError", df)
                 ELSE IF merge_error(df, right, "Field_ID") # "none"
                 THEN Raise("weather_station_mapping",
                            merge_error(df, right, "Field_ID"), df)
                 ELSE Return("weather_station_mapping",
                             merge(df, right, "Field_ID"))

-----------------------------------------------------------------------------
(* process(): the four calls of lines 170-173, one after the other; an      *)
(* exception of a step leaves process()                                     *)

process_next_skip(step) ==
    CASE step = "ingest_sql_data" -> "rename_columns"
      [] step = "rename_columns" -> "weather_station_mapping"
      [] step = "apply_corrections" -> "weather_station_mapping"
      [] step = "weather_station_mapping" -> "idle"
process_next(step) ==
    CASE step = "ingest_sql_data" -> "rename_columns"
      [] step = "rename_columns" -> "apply_corrections"
      [] step = "apply_corrections" -> "weather_station_mapping"
      [] step = "weather_station_mapping" -> "idle"

Proceed(step) ==
    /\ started' = Append(started, step)
    /\ IF err' = "none"
       THEN /\ pc' = process_next(step)
            /\ status' = IF pc' = "idle" THEN "returned" ELSE "running"
       ELSE /\ pc' = "idle"
            /\ status' = "raised"

\* process() is entered and runs its first call, line 170
process ==
    /\ pc = "idle"
    /\ ingest_sql_data
    /\ started' = <<"ingest_sql_data">>
    /\ IF err' = "none"
       THEN pc' = process_next("ingest_sql_data") /\ status' = "running"
       ELSE pc' = "idle" /\ status' = "raised"
    /\ UNCHANGED config

ProcessRename ==
    pc = "rename_columns" /\ rename_columns
        /\ Proceed("rename_columns") /\ UNCHANGED config

ProcessCorrections ==
    pc = "apply_corrections" /\ apply_corrections
        /\ Proceed("apply_corrections") /\ UNCHANGED config

ProcessWeather ==
    pc = "weather_station_mapping" /\ weather_station_mapping
        /\ Proceed("weather_station_mapping") /\ UNCHANGED config

\* the public steps called directly, outside process()
Direct ==
    /\ pc = "idle"
    /\ started' = <<>>
    /\ status' = "none"
    /\ UNCHANGED <<pc, config>>

CallIngest == Direct /\ ingest_sql_data
CallRename == Direct /\ rename_columns
CallCorrections == Direct /\ apply_corrections
CallWeather == Direct /\ weather_station_mapping

Init ==
    /\ df = NoTable
    /\ engine = FALSE
    /\ columns_to_rename \in RenamePairs
    /\ values_to_rename \in ValueMaps
    /\ pc = "idle"
    /\ err = "none"
    /\ lastOp = "__init__"
    /\ pre = NoTable
    /\ pre2 = NoTable
    /\ fetched = NoTable
    /\ started = <<>>
    /\ status = "none"

Next ==
    \/ process
    \/ ProcessRename
    \/ ProcessCorrections
    \/ ProcessWeather
    \/ CallIngest
    \/ CallRename
    \/ CallCorrections
    \/ CallWeather

Spec == Init /\ [][Next]_vars

-----------------------------------------------------------------------------
(* Properties *)

Source == columns_to_rename.source
Target == columns_to_rename.target

Ran(op) == lastOp = op /\ err = "none"

StepOrder ==
    <<"ingest_sql_data", "rename_columns", "apply_corrections",
      "weather_station_mapping">>

IsPrefix(s, t) == Len(s) <= Len(t) /\ \A i \in 1..Len(s) : s[i] = t[i]

\* C1: process() starts its steps in the order load, rename, correct, enrich:
\* the steps started so far are always a prefix of that order (none twice,
\* none skipped), the next step is started only while every earlier one has
\* completed without error, and a process() call that returns has started all
\* four, the last being the enrichment.
C1_FixedStepOrder ==
    /\ IsPrefix(started, StepOrder)
    /\ status = "running" =>
          /\ err = "none"
          /\ Len(started) < Len(StepOrder)
          /\ pc = StepOrder[Len(started) + 1]
          /\ lastOp = started[Len(started)]
    /\ status = "returned" =>
          /\ started = StepOrder
          /\ Ran("weather_station_mapping")
    /\ status = "raised" => err # "none" /\ lastOp = started[Len(started)]
    /\ pc # "idle" => status = "running"

C1_Witness == status = "returned" /\ started = StepOrder /\ df.present

\* C2: rename_columns() on a table that lacks the source or the target column
\* fails with the missing-column error (KeyError) and leaves the table as it
\* was.
C2_MissingColumnRaises ==
    ( /\ lastOp = "rename_columns"
      /\ pre.present
      /\ ~HasCol(pre, Source) \/ ~HasCol(pre, Target) )
    => (err = "KeyError" /\ df = pre)

\* C3: whenever a step fails, the table is exactly the table the step was
\* entered with (the one the last successful step produced).
C3_FailedStepLeavesTable == err # "none" => df = pre

\* C4: on a table holding both the source and the target column,
\* rename_columns() exchanges the two labels and changes no other label, not
\* the number of columns and no cell, also when the table has a column named
\* like the placeholder.
SwappedLabel(name) ==
    IF name = Source THEN Target ELSE IF name = Target THEN Source ELSE name

C4_FullSwap ==
    (Ran("rename_columns") /\ HasCol(pre, Source) /\ HasCol(pre, Target))
    => /\ Len(df.columns) = Len(pre.columns)
       /\ \A i \in 1..Len(pre.columns) :
              df.columns[i] = SwappedLabel(pre.columns[i])
       /\ df.rows = pre.rows

C4_Witness ==
    /\ Ran("rename_columns")
    /\ HasCol(pre, Source) /\ HasCol(pre, Target) /\ Source # Target
    /\ HasCol(pre, TempBase)
    /\ HasCol(df, TempBase)

Magnitude(t) == Column(t, "Elevation")
Categorical(t) == Column(t, "Crop_type")

MappedValues == {values_to_rename[k] : k \in DOMAIN values_to_rename}

AllMapped(col) ==
    \A r \in DOMAIN col : col[r].kind = "str" /\ col[r].str \in MappedValues

NoOuterSpace(s) == s = <<>> \/ (~IsSpace(s[1]) /\ ~IsSpace(s[Len(s)]))

\* every mapped value is written without outer whitespace and is not a key
\* that maps to another value
MappedValuesStable ==
    \A v \in MappedValues :
        /\ NoOuterSpace(v)
        /\ v \in DOMAIN values_to_rename => values_to_rename[v] = v

\* C6 as stated: a second apply_corrections() call in a row leaves the
\* magnitude column unchanged, and a call on a categorical column whose values
\* are all mapped values of values_to_rename leaves that column unchanged,
\* whatever values_to_rename is.
C6_IdempotentForEveryMap ==
    /\ (Ran("apply_corrections") /\ pre2.present)
           => Magnitude(df) = Magnitude(pre)
    /\ (Ran("apply_corrections") /\ AllMapped(Categorical(pre)))
           => Categorical(df) = Categorical(pre)

\* C6 amended: the same, the categorical part only for a values_to_rename
\* whose mapped values carry no outer whitespace and are not keys mapped to a
\* different value.
C6_Idempotent ==
    /\ (Ran("apply_corrections") /\ pre2.present)
           => Magnitude(df) = Magnitude(pre)
    /\ (Ran("apply_corrections") /\ AllMapped(Categorical(pre))
            /\ MappedValuesStable)
           => Categorical(df) = Categorical(pre)

C6_Witness ==
    /\ Ran("apply_corrections") /\ pre2.present
    /\ AllMapped(Categorical(pre)) /\ MappedValuesStable
    /\ Magnitude(pre2) # Magnitude(pre)
    /\ Categorical(pre2) # Categorical(pre)

\* the lookup rows whose Field_ID equals the key cell
Stations(lookup, key) ==
    { lookup.rows[i][ColIndex(lookup, "Weather_station")] :
        i \in { j \in 1..Len(lookup.rows) :
                  lookup.rows[j][ColIndex(lookup, "Field_ID")] = key } }

UniqueKeys(lookup) ==
    \A i, j \in 1..Len(lookup.rows) :
        lookup.rows[i][ColIndex(lookup, "Field_ID")]
            = lookup.rows[j][ColIndex(lookup, "Field_ID")] => i = j

\* the table is the table before the call with one more column,
\* Weather_station, holding the station of the row's Field_ID or a missing
\* value
EnrichedInPlace ==
    /\ Len(df.rows) = Len(pre.rows)
    /\ df.columns = pre.columns \o <<"Weather_station">>
    /\ \A r \in 1..Len(pre.rows) :
          LET width == Len(pre.columns)
              found == Stations(fetched, pre.rows[r][ColIndex(pre, "Field_ID")])
          IN  /\ Len(df.rows[r]) = width + 1
              /\ SubSeq(df.rows[r], 1, width) = pre.rows[r]
              /\ IF found = {} THEN df.rows[r][width + 1] = NullCell
                 ELSE df.rows[r][width + 1] \in found

\* C7 as stated: with Field_ID unique in the lookup, weather_station_mapping()
\* keeps every row and every existing column and adds Weather_station, for
\* every table.
C7_LeftJoinEveryTable ==
    (Ran("weather_station_mapping") /\ UniqueKeys(fetched)) => EnrichedInPlace

\* C7 amended: the same for a table that has no Weather_station column yet.
C7_LeftJoin ==
    ( /\ Ran("weather_station_mapping")
      /\ UniqueKeys(fetched)
      /\ ~HasCol(pre, "Weather_station") )
    => EnrichedInPlace

C7_Witness ==
    /\ Ran("weather_station_mapping") /\ UniqueKeys(fetched)
    /\ ~HasCol(pre, "Weather_station")
    /\ \E r \in 1..Len(df.rows) : df.rows[r][Len(df.columns)] = NullCell
    /\ \E r \in 1..Len(df.rows) : df.rows[r][Len(df.columns)].kind = "str"

\* t is s without its leading and trailing whitespace
IsStripOf(t, s) ==
    \E i \in 1..(Len(s) + 1), j \in 0..Len(s) :
        /\ t = SubSeq(s, i, j)
        /\ \A k \in 1..(i - 1) : IsSpace(s[k])
        /\ \A k \in (j + 1)..Len(s) : IsSpace(s[k])
        /\ NoOuterSpace(t)

Substrings(s) == {SubSeq(s, i, j) : i \in 1..(Len(s) + 1), j \in 0..Len(s)}

\* C8: apply_corrections() replaces every categorical value by the mapped
\* value of its stripped form when that is a key of values_to_rename, and by
\* the stripped form itself otherwise.
C8_StripThenLookup ==
    Ran("apply_corrections") =>
        \A r \in 1..Len(pre.rows) :
            LET old == Categorical(pre)[r]
                new == Categorical(df)[r]
            IN  /\ new.kind = "str"
                /\ \E t \in Substrings(old.str) :
                      /\ IsStripOf(t, old.str)
                      /\ new.str = IF t \in DOMAIN values_to_rename
                                   THEN values_to_rename[t] ELSE t

C8_Witness ==
    /\ Ran("apply_corrections")
    /\ \E r \in 1..Len(pre.rows) :
          /\ Categorical(pre)[r].str = <<"m", " ">>
          /\ Categorical(df)[r].str = <<"M">>
    /\ \E r \in 1..Len(pre.rows) :
          /\ Categorical(pre)[r].str \notin DOMAIN values_to_rename
          /\ Categorical(df)[r] = Categorical(pre)[r]

\* C9: apply_corrections() replaces every magnitude by its absolute value, so
\* every magnitude is >= 0, and within process() that stays so once the
\* correction step has completed.
C9_MagnitudeNonNegative ==
    /\ Ran("apply_corrections") =>
          \A r \in 1..Len(pre.rows) :
              LET old == Magnitude(pre)[r]
                  new == Magnitude(df)[r]
              IN  /\ new.kind = "int" /\ new.num >= 0
                  /\ new.num = old.num \/ new.num = 0 - old.num
    /\ ( /\ status \in {"running", "returned"}
         /\ "apply_corrections" \in Range(started) ) =>
          \A r \in 1..Len(df.rows) :
              Magnitude(df)[r].kind = "int" /\ Magnitude(df)[r].num >= 0

C9_Witness ==
    /\ Ran("apply_corrections")
    /\ status = "running" /\ pc = "weather_station_mapping"
    /\ \E r \in 1..Len(pre.rows) : Magnitude(pre)[r].num < 0

\* C10: a successful ingest_sql_data() leaves the table equal to the result
\* set of the query, whatever the table was before, and no step changes the
\* configuration.
C10_LoadReplaces ==
    [][ /\ (lastOp' = "ingest_sql_data" /\ err' = "none") => df' = fetched'
        /\ config' = config ]_vars

C10_Witness ==
    /\ Ran("ingest_sql_data")
    /\ df = fetched
    /\ pre.present /\ HasCol(pre, "Weather_station")
    /\ pre.columns # df.columns

====
